---- MODULE Spec2Model ----
(***************************************************************************)
(* The reference-page renderer of the import kind                          *)
(* (src/reference/_pages/Import.tsx): the generator function getPages, the *)
(* component Import, and the string operations they use.                   *)
(*                                                                         *)
(* A JavaScript string is a sequence of one-character strings, so that     *)
(* lowercasing, concatenation, JSON quoting and JSON parsing are computed  *)
(* character by character.  A property that is not there (undefined) is    *)
(* the value Absent.                                                       *)
(***************************************************************************)
EXTENDS Integers, Sequences, FiniteSets, TLC

VARIABLES
    gens,     \* the generator objects that getPages has returned
    db,       \* the test database of createTestDatabase: its users and nextId
    dbOp,     \* the method of the test database called last
    dbRet,    \* what that method returned: <<>> for null, <<user>> for a user
    repo,     \* the Map users of an InMemoryUserRepository
    repoLog,  \* the save and delete calls made on the repository, in order
    repoRet   \* what the last call on the repository returned

dbVars == <<db, dbOp, dbRet>>

repoVars == <<repo, repoLog, repoRet>>

vars == <<gens, dbVars, repoVars>>

(***************************************************************************)
(* Bounds.                                                                 *)
(***************************************************************************)
\* getPages invocations in a run of Spec (one render, rich inputs)
MaxGens == 1
\* getPages / dispatcher invocations in a run of SpecBatch (several renders)
MaxBatch == 2
\* iterations of one generator object after its first iteration has ended
MaxAgain == 1
\* addUser calls on one test database
MaxAdds == 3
\* save and delete calls on one repository
MaxOps == 3

(***************************************************************************)
(* Strings.                                                                *)
(***************************************************************************)
\* the value of a property the object does not have (JavaScript undefined);
\* no string, since a string is a sequence of ONE-character strings
Absent == <<"undefined">>

UpperChars == <<"A","B","C","D","E","F","G","H","I","J","K","L","M",
                "N","O","P","Q","R","S","T","U","V","W","X","Y","Z">>
LowerChars == <<"a","b","c","d","e","f","g","h","i","j","k","l","m",
                "n","o","p","q","r","s","t","u","v","w","x","y","z">>

IsUpper(c) == \E k \in 1..26 : UpperChars[k] = c

Whitespace == {" ", "\t", "\n", "\r"}

\* String.prototype.toLocaleLowerCase on one character
LowerChar(c) ==
    IF IsUpper(c) THEN LowerChars[CHOOSE k \in 1..26 : UpperChars[k] = c] ELSE c

\* String.prototype.toLocaleLowerCase
toLocaleLowerCase(s) == [i \in 1..Len(s) |-> LowerChar(s[i])]

(***************************************************************************)
(* JSON.stringify(value, null, 2) and JSON.parse, on objects whose         *)
(* properties are strings: a list of <<key, value>> pairs.                 *)
(***************************************************************************)
RECURSIVE EscapeFrom(_, _)
\* the characters of s from position i on, as QuoteJSONString escapes them
EscapeFrom(s, i) ==
    IF i > Len(s) THEN <<>>
    ELSE (CASE s[i] = "\"" -> <<"\\", "\"">>
            [] s[i] = "\\" -> <<"\\", "\\">>
            [] s[i] = "\n" -> <<"\\", "n">>
            [] s[i] = "\t" -> <<"\\", "t">>
            [] s[i] = "\r" -> <<"\\", "r">>
            [] OTHER       -> <<s[i]>>) \o EscapeFrom(s, i + 1)

\* a variant that puts the characters between the quotes unescaped
Quote_raw(s) == <<"\"">> \o s \o <<"\"">>

\* QuoteJSONString: the string literal of s
Quote(s) == <<"\"">> \o EscapeFrom(s, 1) \o <<"\"">>

RECURSIVE Members(_, _)
\* the members of an object from the k-th on, one per line, indented by 2
Members(props, k) ==
    IF k > Len(props) THEN <<>>
    ELSE (IF k > 1 THEN <<",">> ELSE <<>>)
         \o <<"\n", " ", " ">> \o Quote(props[k][1]) \o <<":", " ">>
         \o Quote(props[k][2]) \o Members(props, k + 1)

\* SerializeJSONObject with gap "  ": a property whose value is undefined is
\* left out, an object without properties is "{}"
SerializeJSONObject(props) ==
    LET present == SelectSeq(props, LAMBDA p : p[2] # Absent)
    IN  IF present = <<>> THEN <<"{", "}">>
        ELSE <<"{">> \o Members(present, 1) \o <<"\n", "}">>

\* the result of a parse that fails (JSON.parse throws SyntaxError)
Fail == [ok |-> FALSE, val |-> <<>>, pos |-> 0]

RECURSIVE SkipWs(_, _)
\* the first position from i on that holds no JSON whitespace
SkipWs(txt, i) ==
    IF i <= Len(txt) /\ txt[i] \in Whitespace THEN SkipWs(txt, i + 1) ELSE i

RECURSIVE ParseChars(_, _, _)
\* the characters of a string literal from position i (after the opening
\* quote) up to the closing quote
ParseChars(txt, i, acc) ==
    IF i > Len(txt) THEN Fail
    ELSE IF txt[i] = "\"" THEN [ok |-> TRUE, val |-> acc, pos |-> i + 1]
    ELSE IF txt[i] \in {"\n", "\t", "\r"} THEN Fail
    ELSE IF txt[i] = "\\" THEN
        IF i + 1 > Len(txt) THEN Fail
        ELSE IF txt[i + 1] \in {"\"", "\\", "/"}
             THEN ParseChars(txt, i + 2, Append(acc, txt[i + 1]))
        ELSE IF txt[i + 1] = "n" THEN ParseChars(txt, i + 2, Append(acc, "\n"))
        ELSE IF txt[i + 1] = "t" THEN ParseChars(txt, i + 2, Append(acc, "\t"))
        ELSE IF txt[i + 1] = "r" THEN ParseChars(txt, i + 2, Append(acc, "\r"))
        ELSE Fail
    ELSE ParseChars(txt, i + 1, Append(acc, txt[i]))

\* a string literal at position i
ParseString(txt, i) ==
    IF i <= Len(txt) /\ txt[i] = "\"" THEN ParseChars(txt, i + 1, <<>>) ELSE Fail

RECURSIVE ParseMembers(_, _, _)
\* the members of an object from position i (a key) up to the closing brace
ParseMembers(txt, i, acc) ==
    LET key == ParseString(txt, i)
        col == IF key.ok THEN SkipWs(txt, key.pos) ELSE 0
        val == IF key.ok /\ col <= Len(txt) /\ txt[col] = ":"
               THEN ParseString(txt, SkipWs(txt, col + 1)) ELSE Fail
        nxt == IF val.ok THEN SkipWs(txt, val.pos) ELSE 0
        got == Append(acc, <<key.val, val.val>>)
    IN  IF ~val.ok \/ nxt > Len(txt) THEN Fail
        ELSE IF txt[nxt] = "}" THEN [ok |-> TRUE, val |-> got, pos |-> nxt + 1]
        ELSE IF txt[nxt] = "," THEN ParseMembers(txt, SkipWs(txt, nxt + 1), got)
        ELSE Fail

\* JSON.parse of the text of an object: its <<key, value>> pairs
JSONparse(txt) ==
    LET open == SkipWs(txt, 1)
        first == SkipWs(txt, open + 1)
        body == IF open > Len(txt) \/ txt[open] # "{" \/ first > Len(txt) THEN Fail
                ELSE IF txt[first] = "}"
                     THEN [ok |-> TRUE, val |-> <<>>, pos |-> first + 1]
                ELSE ParseMembers(txt, first, <<>>)
    IN  IF body.ok /\ SkipWs(txt, body.pos) > Len(txt) THEN body ELSE Fail

(***************************************************************************)
(* Inputs: symbol records (DocNode) and reference contexts.                *)
(***************************************************************************)
Str_import == <<"i","m","p","o","r","t">>
Str_class  == <<"c","l","a","s","s">>
\* a kind value outside the closed kind set
Str_mixin  == <<"m","i","x","i","n">>

Key_kind == <<"k","i","n","d">>
Key_name == <<"n","a","m","e">>
Key_src  == <<"s","r","c">>

\* the kinds that have a renderer
ClosedKinds == {Str_import, Str_class}

Kinds == ClosedKinds \cup {Str_mixin, Absent}

Names == { <<"F","o","o">>, <<"f","o","o">>, <<"a"," ","b">>,
           <<"b","/","c">>, Absent }

\* the module an import comes from (the payload of the record)
Srcs == { <<".","/","m">>, <<"\"","\\","\n">> }

Roots == { <<"/","r","e","f">>, <<"/","R","e","f">> }

PackageNames == { <<"m","y","p","k","g">>, <<"M","y","P","k","g">> }

\* DocNode records: any record may reach getPages at run time, the
\* parameter type DocNodeImport is erased
Items == [kind : Kinds, name : Names, src : Srcs]

\* ReferenceContext
Contexts == [root : Roots, packageName : PackageNames]

\* the records and contexts of a batch of renders
BatchItems == [kind : ClosedKinds,
               name : { <<"F","o","o">>, <<"f","o","o">>, Absent },
               src : { <<".","/","m">> }]

BatchContexts == [root : { <<"/","r","e","f">> },
                  packageName : { <<"M","y","P","k","g">> }]

\* import records and contexts whose names and package names hold the
\* separators of the url, "/" and "."
UrlItems == [kind : {Str_import},
             name : { <<"b","/","c">>, <<"c">>, <<"C">>, <<"c",".","d">> },
             src : { <<".","/","m">> }]

UrlContexts == [root : { <<"/","r","e","f">> },
                packageName : { <<"a">>, <<"A">>, <<"a","/","b">> }]

\* the own properties of a record, in insertion order
Properties(data) ==
    << <<Key_kind, data.kind>>, <<Key_name, data.name>>, <<Key_src, data.src>> >>

\* the record that a list of <<key, value>> pairs describes
FromProperties(props) ==
    LET Get(key) == IF \E k \in 1..Len(props) : props[k][1] = key
                    THEN props[CHOOSE k \in 1..Len(props) :
                                 /\ props[k][1] = key
                                 /\ \A j \in (k + 1)..Len(props) : props[j][1] # key][2]
                    ELSE Absent
    IN  [kind |-> Get(Key_kind), name |-> Get(Key_name), src |-> Get(Key_src)]

\* JSON.stringify(data, null, 2)
JSONstringify(data) == SerializeJSONObject(Properties(data))

(***************************************************************************)
(* The component Import and the generator function getPages.               *)
(***************************************************************************)
\* a variant that swaps the two navigation parameters
Import_swapped(data, context) ==
    [ layout     |-> "ReferencePage",
      context    |-> context,
      navigation |-> [category |-> data.name, currentItemName |-> context.packageName],
      children   |-> [name |-> data.name, pre |-> JSONstringify(data)] ]

\* Import({data, context}): the element <ReferencePage context navigation>
\* with the children "I am a Import, my name is {data.name}" and
\* <pre>{JSON.stringify(data, null, 2)}</pre>
Import(data, context) ==
    [ layout     |-> "ReferencePage",
      context    |-> context,
      navigation |-> [category |-> context.packageName, currentItemName |-> data.name],
      children   |-> [name |-> data.name, pre |-> JSONstringify(data)] ]

\* a variant with the suffix of the class renderer
url_classSuffix(item, context) ==
    context.root \o <<"/">> \o toLocaleLowerCase(context.packageName) \o <<"/">>
        \o toLocaleLowerCase(item.name) \o <<".">> \o Str_class

\* a variant that leaves out the package segment
url_noPackage(item, context) ==
    context.root \o <<"/">> \o toLocaleLowerCase(item.name) \o <<".">> \o Str_import

\* a variant that lowercases the package name only
url_nameAsIs(item, context) ==
    context.root \o <<"/">> \o toLocaleLowerCase(context.packageName) \o <<"/">>
        \o item.name \o <<".">> \o Str_import

\* the template literal
\* `${context.root}/${context.packageName.toLocaleLowerCase()}/${item.name.toLocaleLowerCase()}.import`
url(item, context) ==
    context.root \o <<"/">> \o toLocaleLowerCase(context.packageName) \o <<"/">>
        \o toLocaleLowerCase(item.name) \o <<".">> \o Str_import

\* the evaluation of the object literal throws TypeError: toLocaleLowerCase
\* is read from undefined
Throws(item, context) == context.packageName = Absent \/ item.name = Absent

\* a variant with the lowercased name as title
Page_lowerTitle(item, context) ==
    [ title   |-> toLocaleLowerCase(item.name),
      url     |-> url(item, context),
      content |-> Import(item, context) ]

\* the object literal of the yield: {title, url, content}; the element
\* <Import data={item} context={context} /> is the deferred call of Import
\* with these props, and Import is a total function of them
Page(item, context) ==
    [ title   |-> item.name,
      url     |-> url(item, context),
      content |-> Import(item, context) ]

\* the renderer of another kind of the closed set: the same page with the
\* suffix that the kind reserves
KindPage(kind, item, context) ==
    [ title   |-> item.name,
      url     |-> context.root \o <<"/">> \o toLocaleLowerCase(context.packageName)
                    \o <<"/">> \o toLocaleLowerCase(item.name) \o <<".">> \o kind,
      content |-> Import(item, context) ]

\* the page that the generator function fn yields
PageOf(fn, item, context) ==
    IF fn = Str_import THEN Page(item, context) ELSE KindPage(fn, item, context)

\* a variant that runs the body up to the yield in the call itself, as a
\* function that builds the page and returns it in an array would
NewGenerator_eager(fn, item, context) ==
    IF Throws(item, context)
    THEN [ fn |-> fn, item |-> item, context |-> context, state |-> "completed",
           out |-> <<>>, threw |-> TRUE, done |-> FALSE, again |-> <<>> ]
    ELSE [ fn |-> fn, item |-> item, context |-> context, state |-> "suspendedYield",
           out |-> <<PageOf(fn, item, context)>>, threw |-> FALSE, done |-> FALSE,
           again |-> <<>> ]

\* the generator object that a call of the generator function fn returns:
\* no statement of the body has run
NewGenerator(fn, item, context) ==
    [ fn |-> fn, item |-> item, context |-> context, state |-> "suspendedStart",
      out |-> <<>>, threw |-> FALSE, done |-> FALSE, again |-> <<>> ]

TypeOK ==
    \A i \in 1..Len(gens) :
        /\ gens[i].state \in {"suspendedStart", "suspendedYield", "completed"}
        /\ gens[i].threw \in BOOLEAN
        /\ gens[i].done \in BOOLEAN
        /\ Len(gens[i].out) <= 1

(***************************************************************************)
(* The test database fixture of the testing tutorial (createTestDatabase). *)
(***************************************************************************)
Digits == <<"0","1","2","3","4","5","6","7","8","9">>

RECURSIVE String(_)
\* String(n) of a non-negative integer: its decimal digits
String(n) ==
    IF n < 10 THEN <<Digits[n + 1]>>
    ELSE String(n \div 10) \o <<Digits[(n % 10) + 1]>>

\* the users given to addUser
NewUsers == { [name |-> "Alice", email |-> "alice@example.com"],
              [name |-> "Bob", email |-> "bob@example.com"] }

\* the ids given to getUser: every id addUser can have returned, and "999"
UserIds == {String(n) : n \in 1..(MaxAdds + 1)} \cup { <<"9","9","9">> }

\* createTestDatabase(): const users = {}; let nextId = 1
createTestDatabase == [users |-> <<>>, nextId |-> 1]

\* clear(): deletes every key of users
clear(d) == [d EXCEPT !.users = <<>>]

\* addUser(user): id = String(nextId++); users[id] = {id, ...user}; returns it
addUser(d, user) ==
    LET id == String(d.nextId)
        newUser == [id |-> id, name |-> user.name, email |-> user.email]
    IN  [ db  |-> [users  |-> [k \in DOMAIN d.users \cup {id} |->
                                 IF k = id THEN newUser ELSE d.users[k]],
                   nextId |-> d.nextId + 1],
          ret |-> <<newUser>> ]

\* getUser(id): users[id] || null
getUser(d, id) == IF id \in DOMAIN d.users THEN <<d.users[id]>> ELSE <<>>

\* connect(), disconnect(): console.log only
DbConnect ==
    /\ dbOp' = "connect"
    /\ dbRet' = <<>>
    /\ UNCHANGED <<db, gens, repoVars>>

DbDisconnect ==
    /\ dbOp' = "disconnect"
    /\ dbRet' = <<>>
    /\ UNCHANGED <<db, gens, repoVars>>

DbClear ==
    /\ db' = clear(db)
    /\ dbOp' = "clear"
    /\ dbRet' = <<>>
    /\ UNCHANGED <<gens, repoVars>>

DbAddUser ==
    /\ db.nextId <= MaxAdds
    /\ \E user \in NewUsers :
          /\ db' = addUser(db, user).db
          /\ dbRet' = addUser(db, user).ret
    /\ dbOp' = "addUser"
    /\ UNCHANGED <<gens, repoVars>>

DbGetUser ==
    /\ \E id \in UserIds : dbRet' = getUser(db, id)
    /\ dbOp' = "getUser"
    /\ UNCHANGED <<db, gens, repoVars>>

NextDb == DbConnect \/ DbDisconnect \/ DbClear \/ DbAddUser \/ DbGetUser

(***************************************************************************)
(* InMemoryUserRepository of the testing tutorial.                         *)
(***************************************************************************)
\* new Map()
EmptyMap == [k \in {} |-> k]

\* the ids that users are saved and deleted under
RepoIds == {"1", "2"}

\* the ids given to findById
FindIds == RepoIds \cup {"nonexistent"}

\* User values
RepoUsers == [id : RepoIds, name : {"Test User", "Delete Me"},
              email : {"test@example.com"}]

\* findById(id): this.users.get(id) || null
findById(users, id) == IF id \in DOMAIN users THEN <<users[id]>> ELSE <<>>

\* a variant that keeps the user already stored under the id
save_keepsFirst(users, user) ==
    [ users |-> [k \in DOMAIN users \cup {user.id} |->
                   IF k \in DOMAIN users THEN users[k] ELSE user],
      ret   |-> user ]

\* save(user): this.users.set(user.id, {...user}); returns user
save(users, user) ==
    [ users |-> [k \in DOMAIN users \cup {user.id} |->
                   IF k = user.id
                   THEN [id |-> user.id, name |-> user.name, email |-> user.email]
                   ELSE users[k]],
      ret   |-> user ]

\* delete(id): this.users.delete(id), true when the key was there
delete(users, id) ==
    [ users |-> [k \in DOMAIN users \ {id} |-> users[k]],
      ret   |-> id \in DOMAIN users ]

RepoFindById ==
    /\ \E id \in FindIds : repoRet' = [user |-> findById(repo, id), bool |-> FALSE]
    /\ UNCHANGED <<repo, repoLog, gens, dbVars>>

RepoSave ==
    /\ Len(repoLog) < MaxOps
    /\ \E user \in RepoUsers :
          /\ repo' = save(repo, user).users
          /\ repoRet' = [user |-> <<save(repo, user).ret>>, bool |-> FALSE]
          /\ repoLog' = Append(repoLog, [op |-> "save", id |-> user.id, user |-> <<user>>])
    /\ UNCHANGED <<gens, dbVars>>

RepoDelete ==
    /\ Len(repoLog) < MaxOps
    /\ \E id \in RepoIds :
          /\ repo' = delete(repo, id).users
          /\ repoRet' = [user |-> <<>>, bool |-> delete(repo, id).ret]
          /\ repoLog' = Append(repoLog, [op |-> "delete", id |-> id, user |-> <<>>])
    /\ UNCHANGED <<gens, dbVars>>

NextRepo == RepoFindById \/ RepoSave \/ RepoDelete

Init ==
    /\ gens = <<>>
    /\ db = createTestDatabase
    /\ dbOp = "create"
    /\ dbRet = <<>>
    /\ repo = EmptyMap
    /\ repoLog = <<>>
    /\ repoRet = [user |-> <<>>, bool |-> FALSE]

SpecDb == Init /\ [][NextDb]_vars

SpecRepo == Init /\ [][NextRepo]_vars

\* getPages(item, context): returns a generator object
GetPages(item, context) ==
    /\ gens' = Append(gens, NewGenerator(Str_import, item, context))
    /\ UNCHANGED <<dbVars, repoVars>>

\* the dispatcher: the record goes to the renderer of its kind
Dispatch(item, context) ==
    /\ item.kind \in ClosedKinds
    /\ gens' = Append(gens, NewGenerator(item.kind, item, context))
    /\ UNCHANGED <<dbVars, repoVars>>

\* a variant in which the error ends every generator that is still running
NextThrow_abortsAll(i) ==
    /\ gens[i].state = "suspendedStart"
    /\ Throws(gens[i].item, gens[i].context)
    /\ gens' = [k \in 1..Len(gens) |->
                  IF k = i \/ gens[k].state # "completed"
                  THEN [gens[k] EXCEPT !.state = "completed", !.threw = TRUE]
                  ELSE gens[k]]
    /\ UNCHANGED <<dbVars, repoVars>>

\* next() on a generator that has not started, when the body throws
NextThrow(i) ==
    /\ gens[i].state = "suspendedStart"
    /\ Throws(gens[i].item, gens[i].context)
    /\ gens' = [gens EXCEPT ![i].state = "completed", ![i].threw = TRUE]
    /\ UNCHANGED <<dbVars, repoVars>>

\* a variant that lowercases context.packageName in place before the yield
NextYield_normalizing(i) ==
    /\ gens[i].state = "suspendedStart"
    /\ ~Throws(gens[i].item, gens[i].context)
    /\ gens' = [gens EXCEPT
                  ![i].state = "suspendedYield",
                  ![i].context.packageName = toLocaleLowerCase(@),
                  ![i].out = Append(@, PageOf(gens[i].fn, gens[i].item, gens[i].context))]
    /\ UNCHANGED <<dbVars, repoVars>>

\* a variant that renders the record of the latest getPages call, as if the
\* arguments were kept in one variable shared by all calls
NextYield_latestCall(i) ==
    /\ gens[i].state = "suspendedStart"
    /\ ~Throws(gens[i].item, gens[i].context)
    /\ ~Throws(gens[Len(gens)].item, gens[Len(gens)].context)
    /\ gens' = [gens EXCEPT
                  ![i].state = "suspendedYield",
                  ![i].out = Append(@, PageOf(gens[i].fn, gens[Len(gens)].item,
                                              gens[Len(gens)].context))]
    /\ UNCHANGED <<dbVars, repoVars>>

\* next() on a generator that has not started: runs the body up to the yield
NextYield(i) ==
    /\ gens[i].state = "suspendedStart"
    /\ ~Throws(gens[i].item, gens[i].context)
    /\ gens' = [gens EXCEPT
                  ![i].state = "suspendedYield",
                  ![i].out = Append(@, PageOf(gens[i].fn, gens[i].item, gens[i].context))]
    /\ UNCHANGED <<dbVars, repoVars>>

\* next() on a generator suspended at the yield: the body runs to its end
NextReturn(i) ==
    /\ gens[i].state = "suspendedYield"
    /\ gens' = [gens EXCEPT ![i].state = "completed", ![i].done = TRUE]
    /\ UNCHANGED <<dbVars, repoVars>>

\* next() on a completed generator: {value: undefined, done: true}
NextDone(i) ==
    /\ gens[i].state = "completed"
    /\ ~gens[i].done
    /\ gens' = [gens EXCEPT ![i].done = TRUE]
    /\ UNCHANGED <<dbVars, repoVars>>

\* a further for...of over a generator object whose first iteration has ended:
\* [Symbol.iterator]() returns the generator object itself, and next() on the
\* completed generator returns {value: undefined, done: true} at once, so
\* the iteration collects the pages yielded during it: none
IterateAgain(i) ==
    /\ gens[i].state = "completed"
    /\ gens[i].done
    /\ Len(gens[i].again) < MaxAgain
    /\ gens' = [gens EXCEPT ![i].again = Append(@, <<>>)]
    /\ UNCHANGED <<dbVars, repoVars>>

\* one render: the caller calls getPages and iterates the result
Call ==
    /\ Len(gens) < MaxGens
    /\ \E item \in Items, context \in Contexts : GetPages(item, context)

Throw == \E i \in 1..Len(gens) : NextThrow(i)

Yield == \E i \in 1..Len(gens) : NextYield(i)

Return == \E i \in 1..Len(gens) : NextReturn(i)

Done == \E i \in 1..Len(gens) : NextDone(i)

Next == Call \/ Throw \/ Yield \/ Return \/ Done

Spec == Init /\ [][Next]_vars

\* a batch of renders: records go to getPages or through the dispatcher
BatchCall ==
    /\ Len(gens) < MaxBatch
    /\ \E item \in BatchItems, context \in BatchContexts : GetPages(item, context)

BatchDispatch ==
    /\ Len(gens) < MaxBatch
    /\ \E item \in BatchItems, context \in BatchContexts : Dispatch(item, context)

Again == \E i \in 1..Len(gens) : IterateAgain(i)

NextBatch == BatchCall \/ BatchDispatch \/ Throw \/ Yield \/ Return \/ Done \/ Again

SpecBatch == Init /\ [][NextBatch]_vars

\* renders of import records of several packages under one root
UrlCall ==
    /\ Len(gens) < MaxBatch
    /\ \E item \in UrlItems, context \in UrlContexts : GetPages(item, context)

NextUrls == UrlCall \/ Yield \/ Return

SpecUrls == Init /\ [][NextUrls]_vars

(***************************************************************************)
(* Properties.                                                             *)
(***************************************************************************)
\* the generators that have yielded their page
Yielded == {i \in 1..Len(gens) : gens[i].out # <<>>}

\* the generators that came from getPages of Import.tsx
FromGetPages == {i \in 1..Len(gens) : gens[i].fn = Str_import}

HasUpper(s) == \E k \in 1..Len(s) : IsUpper(s[k])

HasWhitespace(s) == \E k \in 1..Len(s) : s[k] \in Whitespace

\* s from position k on
From(s, k) == SubSeq(s, k, Len(s))

\* C1: the url of the page that getPages yields is context.root, "/", the
\* package name with every letter lowercased, "/", the record's name with
\* every letter lowercased, ".import"; so it begins with context.root.
C1_UrlShape ==
    \A i \in Yielded \cap FromGetPages :
        LET u == gens[i].out[1].url
            r == gens[i].context.root
            p == gens[i].context.packageName
            n == gens[i].item.name
            a == Len(r) + 1
            b == a + Len(p) + 1
        IN  /\ Len(u) = b + Len(n) + 7
            /\ SubSeq(u, 1, Len(r)) = r
            /\ u[a] = "/"
            /\ \A k \in 1..Len(p) : u[a + k] = LowerChar(p[k])
            /\ u[b] = "/"
            /\ \A k \in 1..Len(n) : u[b + k] = LowerChar(n[k])
            /\ From(u, b + Len(n) + 1) = <<".","i","m","p","o","r","t">>

\* C1: root "/ref", package "mypkg", name "Foo" give "/ref/mypkg/foo.import"
C1_Witness ==
    \E i \in Yielded :
        /\ gens[i].context = [root |-> <<"/","r","e","f">>,
                              packageName |-> <<"m","y","p","k","g">>]
        /\ gens[i].item.name = <<"F","o","o">>
        /\ gens[i].out[1].url =
             <<"/","r","e","f","/","m","y","p","k","g","/","f","o","o",
               ".","i","m","p","o","r","t">>

\* C2: for a record with a name, iterating the generator of one getPages call
\* yields one page, whose title is the record's name as it is, and then
\* reports done; never more than one page.
C2_OnePage ==
    \A i \in FromGetPages :
        /\ Len(gens[i].out) <= 1
        /\ gens[i].state = "suspendedYield" => Len(gens[i].out) = 1 /\ ~gens[i].done
        /\ gens[i].item.name # Absent /\ gens[i].state = "completed" =>
              /\ gens[i].done /\ ~gens[i].threw
              /\ Len(gens[i].out) = 1
              /\ gens[i].out[1].title = gens[i].item.name

\* C2: a generator iterated to its end whose record's name has an uppercase letter
C2_Witness ==
    \E i \in FromGetPages :
        /\ gens[i].done /\ gens[i].state = "completed"
        /\ HasUpper(gens[i].item.name)
        /\ gens[i].out[1].title = gens[i].item.name

\* two records that differ in kind only, each rendered by the renderer of
\* its kind with the same context
KindTwins(i, j) ==
    /\ gens[i].fn = gens[i].item.kind /\ gens[j].fn = gens[j].item.kind
    /\ gens[i].item.kind # gens[j].item.kind
    /\ gens[i].item.name = gens[j].item.name
    /\ gens[i].item.src = gens[j].item.src
    /\ gens[i].context = gens[j].context

C5_WholeUrlLowercase ==
    \A i \in Yielded \cap FromGetPages : ~HasUpper(gens[i].out[1].url)

\* C5, amended: the url is context.root as given, followed by a part without
\* any uppercase character; the whole url is lowercase when the root is.
C5_LowercaseAfterRoot ==
    \A i \in Yielded \cap FromGetPages :
        LET u == gens[i].out[1].url
            r == gens[i].context.root
        IN  /\ SubSeq(u, 1, Len(r)) = r
            /\ ~HasUpper(From(u, Len(r) + 1))
            /\ ~HasUpper(r) => ~HasUpper(u)

\* C5: a page whose root, package name and name all have uppercase letters
C5_Witness ==
    \E i \in Yielded \cap FromGetPages :
        /\ HasUpper(gens[i].context.root)
        /\ HasUpper(gens[i].context.packageName)
        /\ HasUpper(gens[i].item.name)

\* C6: the url has no whitespace character, also when the name, the package
\* name or the root have one.
C6_NoWhitespace ==
    \A i \in Yielded \cap FromGetPages : ~HasWhitespace(gens[i].out[1].url)

\* C7: the element handed to the page layout has navigation.currentItemName
\* equal to the record's name, navigation.category equal to
\* context.packageName, and as context the context that getPages received.
C7_Navigation ==
    \A i \in Yielded \cap FromGetPages :
        LET c == gens[i].out[1].content
        IN  /\ c.layout = "ReferencePage"
            /\ c.navigation.currentItemName = gens[i].item.name
            /\ c.navigation.category = gens[i].context.packageName
            /\ c.context = gens[i].context

\* C7: a page whose record's name is not the package name
C7_Witness ==
    \E i \in Yielded \cap FromGetPages :
        /\ gens[i].item.name # gens[i].context.packageName
        /\ gens[i].out[1].content.navigation.currentItemName = <<"F","o","o">>

\* C8: the content of every page holds a dump of the record, and parsing the
\* dump gives the record back, every property included.
C8_DumpRoundTrip ==
    \A i \in Yielded \cap FromGetPages :
        LET parsed == JSONparse(gens[i].out[1].content.children.pre)
        IN  /\ parsed.ok
            /\ FromProperties(parsed.val) = gens[i].item

\* C8: a page whose record has a quote, a backslash and a line break in its
\* payload
C8_Witness ==
    \E i \in Yielded \cap FromGetPages :
        /\ \E k \in 1..Len(gens[i].item.src) : gens[i].item.src[k] = "\""
        /\ \E k \in 1..Len(gens[i].item.src) : gens[i].item.src[k] = "\\"
        /\ \E k \in 1..Len(gens[i].item.src) : gens[i].item.src[k] = "\n"
        /\ JSONparse(gens[i].out[1].content.children.pre).ok

\* C9: a record whose kind is not the kind of the renderer it reaches (a
\* kind of another renderer, or none of the closed set) gets no page, and
\* the first next() raises an error.
C9_WrongKindIsFatal ==
    \A i \in FromGetPages :
        gens[i].item.kind \notin {Str_import, Absent} =>
            /\ gens[i].out = <<>>
            /\ gens[i].state # "suspendedStart" => gens[i].threw

\* C10: a record without kind or without name gets no page, and rendering
\* it raises an error; a page is yielded whole or not at all.
C10_MalformedIsFatal ==
    \A i \in FromGetPages :
        /\ gens[i].item.kind = Absent \/ gens[i].item.name = Absent =>
              /\ gens[i].out = <<>>
              /\ gens[i].state # "suspendedStart" => gens[i].threw
        /\ gens[i].threw => gens[i].out = <<>>

\* C11: iterating the generator object of one getPages call again, after it has
\* been consumed to the end, yields the same pages as the first iteration.
C11_Restartable ==
    \A i \in FromGetPages :
        \A k \in 1..Len(gens[i].again) : gens[i].again[k] = gens[i].out

\* C12: no step of any getPages call or iteration, a failing one included,
\* changes the record or the context that the call received.
C12_ReadOnly ==
    [][\A i \in 1..Len(gens) :
          /\ gens'[i].item = gens[i].item
          /\ gens'[i].context = gens[i].context]_vars

\* C12: one render has failed and another has been iterated to its end, with
\* the context as it was given
C12_Witness ==
    \E i \in FromGetPages, j \in FromGetPages :
        /\ gens[i].threw
        /\ gens[j].done /\ gens[j].out # <<>>
        /\ gens[j].context.packageName = <<"M","y","P","k","g">>
        /\ gens[j].out[1].content.context = gens[j].context

\* a step changes the generator it is taken on and no other
OneGeneratorPerStep ==
    \A i \in 1..Len(gens), j \in 1..Len(gens) :
        i # j /\ gens'[i] # gens[i] => gens'[j] = gens[j]

\* C13: with several records rendered against one context, in every
\* interleaving of getPages calls and next() calls each record gets the page
\* it gets when rendered alone, Page(item, context), and a step of one render
\* changes no other render.
C13_Interleaving ==
    /\ [](\A i \in Yielded \cap FromGetPages :
             gens[i].out = <<Page(gens[i].item, gens[i].context)>>)
    /\ [][OneGeneratorPerStep]_vars

\* C13: two different records rendered interleaved: the first is still
\* suspended at its yield when the second has been iterated to its end
C13_Witness ==
    \E i \in FromGetPages, j \in FromGetPages :
        /\ i < j
        /\ gens[i].item.name # gens[j].item.name
        /\ gens[i].context = gens[j].context
        /\ gens[i].state = "suspendedYield"
        /\ gens[j].state = "completed" /\ gens[j].out # <<>>
        /\ gens[i].out[1].title # gens[j].out[1].title

\* C14: when the render of one record of a batch has failed, every other
\* record that has a name still gets the page it gets when rendered alone:
\* its generator has not failed, its first next() can still be taken, and
\* the page it holds is Page(item, context), whether it ran before, after
\* or interleaved with the failing render.
C14_FailureIsolation ==
    \A i \in FromGetPages, j \in 1..Len(gens) :
        i # j /\ gens[j].threw /\ gens[i].item.name # Absent =>
            /\ ~gens[i].threw
            /\ gens[i].state = "suspendedStart" => ENABLED NextYield(i)
            /\ gens[i].state # "suspendedStart" =>
                  gens[i].out = <<Page(gens[i].item, gens[i].context)>>

\* C14: a render that was called after a failing one has failed, and has
\* yielded its page
C14_Witness ==
    \E i \in FromGetPages, j \in FromGetPages :
        /\ j < i
        /\ gens[j].threw /\ gens[j].out = <<>>
        /\ gens[i].item.name # Absent
        /\ gens[i].state = "completed" /\ Len(gens[i].out) = 1

\* two names that differ, and differ in letter case only
CaseVariants(m, n) ==
    /\ m # Absent /\ n # Absent /\ m # n
    /\ Len(m) = Len(n)
    /\ \A k \in 1..Len(m) : LowerChar(m[k]) = LowerChar(n[k])

\* two records of the same kind whose names differ in letter case only, given
\* to getPages with the same context
CaseTwins(i, j) ==
    /\ gens[i].item.kind = gens[j].item.kind
    /\ gens[i].context = gens[j].context
    /\ CaseVariants(gens[i].item.name, gens[j].item.name)

\* C15: two records of the same kind in the same package whose names differ
\* only in letter case get the same url; neither render fails or is held
\* back, and each page keeps its own title.
C15_CaseCollisionKept ==
    \A i \in FromGetPages, j \in FromGetPages :
        CaseTwins(i, j) =>
            /\ ~gens[i].threw
            /\ gens[i].state = "suspendedStart" => ENABLED NextYield(i)
            /\ i \in Yielded /\ j \in Yielded =>
                  /\ gens[i].out[1].url = gens[j].out[1].url
                  /\ gens[i].out[1].title # gens[j].out[1].title

\* C15: "Foo" and "foo" of the same package have both been emitted, with one url
C15_Witness ==
    \E i \in Yielded \cap FromGetPages, j \in Yielded \cap FromGetPages :
        /\ CaseTwins(i, j)
        /\ gens[i].item.name = <<"F","o","o">> /\ gens[j].item.name = <<"f","o","o">>
        /\ gens[i].out[1].url = gens[j].out[1].url

\* the step is a getPages call: it adds a generator object
IsCall == Len(gens') = Len(gens) + 1

\* C16: the getPages call itself renders nothing and raises nothing, also for
\* a record without name: the generator it returns has not started, holds no
\* page and has not failed; the page is there, or the error of a record
\* without name is raised, once the first next() has been taken.
C16_Lazy ==
    /\ [][IsCall =>
            /\ gens'[Len(gens')].state = "suspendedStart"
            /\ gens'[Len(gens')].out = <<>>
            /\ ~gens'[Len(gens')].threw]_vars
    /\ [](\A i \in FromGetPages :
             /\ gens[i].state = "suspendedStart" => gens[i].out = <<>> /\ ~gens[i].threw
             /\ gens[i].state # "suspendedStart" =>
                   /\ gens[i].threw = (gens[i].item.name = Absent)
                   /\ gens[i].threw = (gens[i].out = <<>>))

\* C16: getPages has returned a generator for a record without name, and
\* no error has been raised
C16_Witness ==
    \E i \in FromGetPages :
        /\ gens[i].item.name = Absent
        /\ gens[i].state = "suspendedStart"
        /\ ~gens[i].threw /\ gens[i].out = <<>>

HasSlash(s) == \E k \in 1..Len(s) : s[k] = "/"

\* the lowercased (packageName, name) of a generator
LowerPair(i) ==
    << [k \in 1..Len(gens[i].context.packageName) |->
            LowerChar(gens[i].context.packageName[k])],
       [k \in 1..Len(gens[i].item.name) |-> LowerChar(gens[i].item.name[k])] >>

\* two import records under the same root whose lowercased
\* (packageName, name) pairs differ
DistinctPairs(i, j) ==
    /\ gens[i].item.kind = Str_import /\ gens[j].item.kind = Str_import
    /\ gens[i].context.root = gens[j].context.root
    /\ LowerPair(i) # LowerPair(j)

\* C17 as stated: for a fixed root and the import kind, two
\* (packageName, name) pairs whose lowercased forms differ get different
\* urls, also when they hold "/" or ".".
C17_UrlInjective ==
    \A i \in Yielded \cap FromGetPages, j \in Yielded \cap FromGetPages :
        DistinctPairs(i, j) => gens[i].out[1].url # gens[j].out[1].url

\* C17, amended: they get different urls when neither package name holds
\* "/", or neither name does; "." does no harm.
C17_UrlInjectiveWithoutSlash ==
    \A i \in Yielded \cap FromGetPages, j \in Yielded \cap FromGetPages :
        /\ DistinctPairs(i, j)
        /\ \/ ~HasSlash(gens[i].context.packageName) /\ ~HasSlash(gens[j].context.packageName)
           \/ ~HasSlash(gens[i].item.name) /\ ~HasSlash(gens[j].item.name)
        => gens[i].out[1].url # gens[j].out[1].url

\* C17: package "a/b" with name "c" and package "a" with name "c.d" have both
\* been rendered, and their urls differ
C17_Witness ==
    \E i \in Yielded \cap FromGetPages, j \in Yielded \cap FromGetPages :
        /\ DistinctPairs(i, j)
        /\ gens[i].context.packageName = <<"a","/","b">> /\ gens[i].item.name = <<"c">>
        /\ gens[j].context.packageName = <<"a">> /\ gens[j].item.name = <<"c",".","d">>
        /\ gens[i].out[1].url # gens[j].out[1].url

\* C18: after clear() the test database is as a new one: getUser returns
\* null for every id, and the next addUser returns the id "1".
C18_ClearIsFresh ==
    [][dbOp = "clear" =>
          /\ dbOp' = "getUser" => dbRet' = <<>>
          /\ dbOp' = "addUser" => dbRet'[1].id = <<"1">>]_vars

RECURSIVE LastStored(_, _, _)
\* what the first k calls of the log leave under id: the user of the latest
\* save(id) when no delete(id) follows it, else nothing
LastStored(log, id, k) ==
    IF k = 0 THEN <<>>
    ELSE IF log[k].id = id THEN log[k].user
    ELSE LastStored(log, id, k - 1)

\* C19: after any sequence of save and delete calls, findById(id) returns the
\* user most recently saved under id when no delete(id) followed that save,
\* and null otherwise, also for an id never saved; delete(id) returns true
\* exactly when a user was stored under id at the call.
C19_RepositoryContract ==
    /\ [](\A id \in FindIds :
             findById(repo, id) = LastStored(repoLog, id, Len(repoLog)))
    /\ [][Len(repoLog') > Len(repoLog) /\ repoLog'[Len(repoLog')].op = "delete" =>
            repoRet'.bool =
              (LastStored(repoLog, repoLog'[Len(repoLog')].id, Len(repoLog)) # <<>>)]_vars

\* C19: a user was saved under "1" twice with different names and then
\* deleted: delete returned true and findById("1") is null
C19_Witness ==
    /\ Len(repoLog) = 3
    /\ repoLog[1].op = "save" /\ repoLog[1].id = "1"
    /\ repoLog[2].op = "save" /\ repoLog[2].id = "1"
    /\ repoLog[1].user # repoLog[2].user
    /\ repoLog[3].op = "delete" /\ repoLog[3].id = "1"
    /\ repoRet.bool
    /\ findById(repo, "1") = <<>>

====
